---------------------------- MODULE Spec2Model ----------------------------
(***************************************************************************)
(* Model of chrono's timezone-aware calendar date, src/src/date.rs.        *)
(*                                                                         *)
(* A Date couples a UTC-anchored NaiveDate with an offset state.  The      *)
(* collaborators that date.rs calls but that live in other files of the    *)
(* crate (NaiveDate, NaiveTime, NaiveDateTime, Duration, the Offset trait's *)
(* provided methods, DateTime, the UTC and FixedOffset timezones) are       *)
(* modelled from the specification's description of them.                  *)
(*                                                                         *)
(* Values:                                                                 *)
(*   NaiveDate      an integer, the number of days since EpochYear-01-01   *)
(*   Duration       an integer number of seconds                           *)
(*   NaiveTime      [secs, frac]: second of the day, nanosecond fraction   *)
(*   offset state   [zone, st]                                             *)
(*   Date           [date, offset]                                         *)
(*   results        Ok(v) for a plain return, Some(v) / None for Option,   *)
(*                  Panic(msg) for an abort                                *)
(***************************************************************************)
EXTENDS Integers, Sequences, FiniteSets, TLC

VARIABLES self, op, arg, out

vars == <<self, op, arg, out>>

(***************************************************************************)
(* Bounds of the model.                                                    *)
(***************************************************************************)
\* representable years before and after EpochYear
YearsBefore == 1
YearsAfter == 0

\* the year of the dates used by tests::test_date_weird_offset
EpochYear == 2012

MinYear == EpochYear - YearsBefore
MaxYear == EpochYear + YearsAfter

(***************************************************************************)
(* Results.                                                                *)
(***************************************************************************)
None == [tag |-> "None"]
Some(v) == [tag |-> "Some", val |-> v]
Ok(v) == [tag |-> "Ok", val |-> v]
Panic(msg) == [tag |-> "panic", msg |-> msg]

IsPanic(r) == r.tag = "panic"
IsSome(r) == r.tag = "Some"
IsNone(r) == r.tag = "None"
IsOk(r) == r.tag = "Ok"

\* Option::expect
expect(o, msg) ==
    IF IsSome(o) THEN Ok(o.val)
    ELSE IF IsNone(o) THEN Panic(msg)
    ELSE o

(***************************************************************************)
(* Duration.                                                               *)
(***************************************************************************)
SecsPerDay == 86400

DurationDays(n) == n * SecsPerDay
DurationHours(n) == n * 3600

\* Duration::num_days: whole days, the fraction of a day dropped
num_days(k) == IF k >= 0 THEN k \div SecsPerDay ELSE -((-k) \div SecsPerDay)

(***************************************************************************)
(* NaiveDate: the proleptic Gregorian calendar on MinYear..MaxYear.        *)
(***************************************************************************)
IsLeap(y) == (y % 4 = 0 /\ y % 100 # 0) \/ y % 400 = 0

YearLen(y) == IF IsLeap(y) THEN 366 ELSE 365

MonthLen(y, m) ==
    IF m = 2 THEN (IF IsLeap(y) THEN 29 ELSE 28)
    ELSE IF m \in {4, 6, 9, 11} THEN 30
    ELSE 31

RECURSIVE YearStart(_)
\* day number of January 1st of year y
YearStart(y) ==
    IF y = EpochYear THEN 0
    ELSE IF y > EpochYear THEN YearStart(y - 1) + YearLen(y - 1)
    ELSE YearStart(y + 1) - YearLen(y)

RECURSIVE DaysBeforeMonth(_, _)
\* days of year y before the first of month m
DaysBeforeMonth(y, m) ==
    IF m <= 1 THEN 0 ELSE DaysBeforeMonth(y, m - 1) + MonthLen(y, m - 1)

\* naive::date::MIN and naive::date::MAX
NaiveMIN == YearStart(MinYear)
NaiveMAX == YearStart(MaxYear + 1) - 1

NaiveDates == NaiveMIN..NaiveMAX

year(n) == CHOOSE y \in MinYear..MaxYear : YearStart(y) <= n /\ n < YearStart(y + 1)
ordinal(n) == n - YearStart(year(n)) + 1
month(n) ==
    CHOOSE m \in 1..12 :
        /\ DaysBeforeMonth(year(n), m) < ordinal(n)
        /\ ordinal(n) <= DaysBeforeMonth(year(n), m) + MonthLen(year(n), m)
day(n) == ordinal(n) - DaysBeforeMonth(year(n), month(n))

\* NaiveDate::from_yo_opt
from_yo_opt(y, o) ==
    IF y \in MinYear..MaxYear /\ o >= 1 /\ o <= YearLen(y)
    THEN Some(YearStart(y) + o - 1)
    ELSE None

\* NaiveDate::from_ymd_opt
from_ymd_opt(y, m, d) ==
    IF y \in MinYear..MaxYear /\ m \in 1..12 /\ d >= 1 /\ d <= MonthLen(y, m)
    THEN Some(YearStart(y) + DaysBeforeMonth(y, m) + d - 1)
    ELSE None

\* NaiveDate::succ_opt / pred_opt
naive_succ_opt(n) == IF n < NaiveMAX THEN Some(n + 1) ELSE None
naive_pred_opt(n) == IF n > NaiveMIN THEN Some(n - 1) ELSE None

\* NaiveDate's field replacements
naive_with_year(n, y) == from_ymd_opt(y, month(n), day(n))
naive_with_month(n, m) == from_ymd_opt(year(n), m, day(n))
naive_with_month0(n, m0) == from_ymd_opt(year(n), m0 + 1, day(n))
naive_with_day(n, d) == from_ymd_opt(year(n), month(n), d)
naive_with_day0(n, d0) == from_ymd_opt(year(n), month(n), d0 + 1)
naive_with_ordinal(n, o) == from_yo_opt(year(n), o)
naive_with_ordinal0(n, o0) == from_yo_opt(year(n), o0 + 1)

\* NaiveDate + Duration: moves by the duration's whole days and aborts
\* outside the representable range
naive_add(n, k) ==
    IF n + num_days(k) \in NaiveDates
    THEN Ok(n + num_days(k))
    ELSE Panic("overflow")

\* NaiveDate - NaiveDate
naive_sub(a, b) == DurationDays(a - b)


\* NaiveDate - Duration
naive_sub_duration(n, k) == naive_add(n, -k)

(***************************************************************************)
(* NaiveTime and NaiveDateTime.                                            *)
(***************************************************************************)
NanosLimit == 2000000000

\* NaiveTime::from_hms_nano_opt: the fraction may exceed one second to
\* represent a leap second
from_hms_nano_opt(h, m, s, nano) ==
    IF h >= 24 \/ m >= 60 \/ s >= 60 \/ nano >= NanosLimit
    THEN None
    ELSE Some([secs |-> h * 3600 + m * 60 + s, frac |-> nano])

from_hms_opt(h, m, s) == from_hms_nano_opt(h, m, s, 0)
from_hms_milli_opt(h, m, s, milli) == from_hms_nano_opt(h, m, s, milli * 1000000)
from_hms_micro_opt(h, m, s, micro) == from_hms_nano_opt(h, m, s, micro * 1000)

\* NaiveDate::and_time
naive_and_time(n, t) == [date |-> n, time |-> t]

\* NaiveDateTime + Duration: the time wraps around and carries into the date
naive_datetime_add(dt, k) ==
    LET total == dt.date * SecsPerDay + dt.time.secs + k
        date == total \div SecsPerDay
    IN  IF date \in NaiveDates
        THEN Ok([date |-> date,
                 time |-> [secs |-> total % SecsPerDay, frac |-> dt.time.frac]])
        ELSE Panic("overflow")

\* NaiveDateTime - Duration
naive_datetime_sub(dt, k) == naive_datetime_add(dt, -k)

(***************************************************************************)
(* Offset states and timezones.  An offset state is [zone, st]: st is the  *)
(* offset in seconds of a FixedOffset, 0 / 1 for the synthetic timezone's  *)
(* early / late state, and 0 otherwise.  A timezone is the same record.    *)
(***************************************************************************)
UTC == [zone |-> "UTC", st |-> 0]
FixedOffset(secs) == [zone |-> "FixedOffset", st |-> secs]
\* tests::UTC1y and its state tests::OneYear
UTC1y == [zone |-> "UTC1y", st |-> 0]
OneYear == [zone |-> "UTC1y", st |-> 0]
\* a timezone that skips one local date and repeats another
Synth == [zone |-> "Synth", st |-> 0]
SynthEarly == [zone |-> "Synth", st |-> 0]
SynthLate == [zone |-> "Synth", st |-> 1]

\* UTC date at which Synth moves its clock one day forward, and back
SynthForward == YearStart(EpochYear) + DaysBeforeMonth(EpochYear, 3) + 10
SynthBack == YearStart(EpochYear) + DaysBeforeMonth(EpochYear, 11) + 3

\* the local date Synth skips and the one it repeats
GapDate == SynthForward
FoldDate == SynthBack

\* OffsetState::local_minus_utc
local_minus_utc(s) ==
    IF s.zone = "UTC1y" THEN DurationDays(365)
    ELSE IF s.zone = "FixedOffset" THEN s.st
    ELSE IF s.zone = "Synth" THEN DurationDays(s.st)
    ELSE 0

\* Offset::from_state
from_state(s) ==
    IF s.zone = "FixedOffset" THEN FixedOffset(s.st)
    ELSE [zone |-> s.zone, st |-> 0]

\* LocalResult
LNone == [tag |-> "None"]
Single(v) == [tag |-> "Single", val |-> v]
Ambiguous(a, b) == [tag |-> "Ambiguous", min |-> a, max |-> b]

\* LocalResult::single
single(r) ==
    IF IsPanic(r) THEN r
    ELSE IF r.tag = "Single" THEN Some(r.val)
    ELSE None

\* LocalResult::map on Single and on Ambiguous, with the results x, a, b of a
\* conversion that may abort
lr_map_single(x) == IF IsPanic(x) THEN x ELSE Single(x.val)
lr_map_ambiguous(a, b) ==
    IF IsPanic(a) THEN a
    ELSE IF IsPanic(b) THEN b
    ELSE Ambiguous(a.val, b.val)

\* Offset::state_from_utc_date
state_from_utc_date(tz, utc) ==
    IF tz.zone = "Synth"
    THEN (IF SynthForward <= utc /\ utc < SynthBack THEN SynthLate ELSE SynthEarly)
    ELSE IF tz.zone = "UTC1y" THEN OneYear
    ELSE tz

\* Offset::state_from_local_date
state_from_local_date(tz, local) ==
    IF tz.zone = "Synth"
    THEN (IF local = GapDate THEN LNone
          ELSE IF local = FoldDate THEN Ambiguous(SynthLate, SynthEarly)
          ELSE IF GapDate < local /\ local < FoldDate THEN Single(SynthLate)
          ELSE Single(SynthEarly))
    ELSE IF tz.zone = "UTC1y" THEN Single(OneYear)
    ELSE Single(tz)

\* Offset::state_from_local_datetime
state_from_local_datetime(tz, local) == state_from_local_date(tz, local.date)

(***************************************************************************)
(* Date (date.rs).                                                         *)
(***************************************************************************)
\* Date::from_utc
from_utc(date, offset) == [date |-> date, offset |-> offset]

\* the constants MIN and MAX
MIN == [date |-> NaiveMIN, offset |-> UTC]
MAX == [date |-> NaiveMAX, offset |-> UTC]

\* Date::offset, Date::timezone, Date::naive_utc
offset(d) == d.offset
timezone(d) == from_state(d.offset)
naive_utc(d) == d.date

\* Date::naive_local: Ok(local date), or the abort of NaiveDate + Duration
naive_local(d) == naive_add(d.date, local_minus_utc(d.offset))

(***************************************************************************)
(* The Offset trait's constructors of Date and DateTime.                   *)
(***************************************************************************)
\* DateTime::from_utc
datetime_from_utc(dt, off) == [datetime |-> dt, offset |-> off]

\* Offset::from_utc_date
from_utc_date(tz, utc) == from_utc(utc, state_from_utc_date(tz, utc))

\* |state| Date::from_utc(*local - state.local_minus_utc(), state)
date_of_local(local, s) ==
    LET u == naive_sub_duration(local, local_minus_utc(s))
    IN  IF IsPanic(u) THEN u ELSE Ok(from_utc(u.val, s))

\* Offset::from_local_date
from_local_date(tz, local) ==
    LET r == state_from_local_date(tz, local)
    IN  IF r.tag = "Single" THEN lr_map_single(date_of_local(local, r.val))
        ELSE IF r.tag = "Ambiguous"
        THEN lr_map_ambiguous(date_of_local(local, r.min), date_of_local(local, r.max))
        ELSE r

\* |state| DateTime::from_utc(*local - state.local_minus_utc(), state)
datetime_of_local(local, s) ==
    LET u == naive_datetime_sub(local, local_minus_utc(s))
    IN  IF IsPanic(u) THEN u ELSE Ok(datetime_from_utc(u.val, s))

\* Offset::from_local_datetime
from_local_datetime(tz, local) ==
    LET r == state_from_local_datetime(tz, local)
    IN  IF r.tag = "Single" THEN lr_map_single(datetime_of_local(local, r.val))
        ELSE IF r.tag = "Ambiguous"
        THEN lr_map_ambiguous(datetime_of_local(local, r.min),
                              datetime_of_local(local, r.max))
        ELSE r

\* Offset::ymd
ymd(tz, y, m, d) ==
    LET l == from_ymd_opt(y, m, d)
    IN  IF IsNone(l) THEN Panic("invalid or out-of-range date")
        ELSE expect(single(from_local_date(tz, l.val)), "invalid or out-of-range date")

(***************************************************************************)
(* Date: composition with a time of day.                                   *)
(***************************************************************************)
\* and_time resolving an ambiguous local datetime to its earliest instant
and_time_earliest(d, time) ==
    LET l == naive_local(d)
        r == IF IsPanic(l) THEN l
             ELSE from_local_datetime(timezone(d), naive_and_time(l.val, time))
    IN  IF IsPanic(r) THEN r
        ELSE IF r.tag = "Ambiguous" THEN Some(r.min)
        ELSE single(r)

\* Date::and_time
and_time(d, time) ==
    LET l == naive_local(d)
    IN  IF IsPanic(l) THEN l
        ELSE single(from_local_datetime(timezone(d), naive_and_time(l.val, time)))

\* Option::and_then(|time| self.and_time(time))
and_then_and_time(d, t) == IF IsSome(t) THEN and_time(d, t.val) ELSE t

\* Date::and_hms_opt and Date::and_hms
and_hms_opt(d, h, m, s) == and_then_and_time(d, from_hms_opt(h, m, s))
and_hms(d, h, m, s) == expect(and_hms_opt(d, h, m, s), "invalid time")

\* Date::and_hms_milli_opt and Date::and_hms_milli
and_hms_milli_opt(d, h, m, s, milli) ==
    and_then_and_time(d, from_hms_milli_opt(h, m, s, milli))
and_hms_milli(d, h, m, s, milli) ==
    expect(and_hms_milli_opt(d, h, m, s, milli), "invalid time")

\* Date::and_hms_micro_opt and Date::and_hms_micro
and_hms_micro_opt(d, h, m, s, micro) ==
    and_then_and_time(d, from_hms_micro_opt(h, m, s, micro))
and_hms_micro(d, h, m, s, micro) ==
    expect(and_hms_micro_opt(d, h, m, s, micro), "invalid time")

\* Date::and_hms_nano_opt and Date::and_hms_nano
and_hms_nano_opt(d, h, m, s, nano) ==
    and_then_and_time(d, from_hms_nano_opt(h, m, s, nano))
and_hms_nano(d, h, m, s, nano) ==
    expect(and_hms_nano_opt(d, h, m, s, nano), "invalid time")

(***************************************************************************)
(* Date: next and previous day, retimezoning.                              *)
(***************************************************************************)
\* Option::map(|date| Date::from_utc(date, self.offset.clone()))
map_from_utc(o, off) == IF IsSome(o) THEN Some(from_utc(o.val, off)) ELSE o

\* Date::succ_opt and Date::succ
succ_opt(d) == map_from_utc(naive_succ_opt(d.date), d.offset)
succ(d) == expect(succ_opt(d), "out of bound")

\* pred_opt stepping to the next day, as succ_opt does
pred_opt_forward(d) == map_from_utc(naive_succ_opt(d.date), d.offset)

\* Date::pred_opt and Date::pred
pred_opt(d) == map_from_utc(naive_pred_opt(d.date), d.offset)
pred(d) == expect(pred_opt(d), "out of bound")

\* with_timezone resolving the local date, not the UTC date, in the new timezone
with_timezone_of_local(d, tz) ==
    LET l == naive_local(d)
    IN  IF IsPanic(l) THEN l ELSE Ok(from_utc_date(tz, l.val))

\* Date::with_timezone
with_timezone(d, tz) == Ok(from_utc_date(tz, d.date))

(***************************************************************************)
(* Date: the Datelike field mutators.                                      *)
(***************************************************************************)
Mutators ==
    {"with_year", "with_month", "with_month0", "with_day", "with_day0",
     "with_ordinal", "with_ordinal0"}

\* the closure a mutator hands to map_local: |date| date.with_year(year), ...
EditOf(name, a, n) ==
    CASE name = "with_year" -> naive_with_year(n, a)
      [] name = "with_month" -> naive_with_month(n, a)
      [] name = "with_month0" -> naive_with_month0(n, a)
      [] name = "with_day" -> naive_with_day(n, a)
      [] name = "with_day0" -> naive_with_day0(n, a)
      [] name = "with_ordinal" -> naive_with_ordinal(n, a)
      [] name = "with_ordinal0" -> naive_with_ordinal0(n, a)

\* map_local, with the closure f given as the mutator's name and argument
map_local(d, name, a) ==
    LET l == naive_local(d)
    IN  IF IsPanic(l) THEN l
        ELSE LET e == EditOf(name, a, l.val)
             IN  IF IsSome(e) THEN single(from_local_date(timezone(d), e.val))
                 ELSE e

with_year(d, y) == map_local(d, "with_year", y)
with_month(d, m) == map_local(d, "with_month", m)
with_month0(d, m0) == map_local(d, "with_month0", m0)
with_day(d, dd) == map_local(d, "with_day", dd)
with_day0(d, d0) == map_local(d, "with_day0", d0)
with_ordinal(d, o) == map_local(d, "with_ordinal", o)
with_ordinal0(d, o0) == map_local(d, "with_ordinal0", o0)

(***************************************************************************)
(* Date: comparison and arithmetic.                                        *)
(***************************************************************************)
\* equality of the local dates
eq_local(d, other) == naive_local(d) = naive_local(other)

\* PartialEq<Date<Off2>> for Date<Off>
eq(d, other) == d.date = other.date

\* addition that asks the timezone for the offset state of the new date
add_reresolved(d, rhs) ==
    LET n == naive_add(d.date, rhs)
    IN  IF IsPanic(n) THEN n ELSE Ok(from_utc_date(timezone(d), n.val))

\* Add<Duration> for Date
add(d, rhs) ==
    LET n == naive_add(d.date, rhs)
    IN  IF IsPanic(n) THEN n ELSE Ok([date |-> n.val, offset |-> d.offset])

\* Sub<Date<Off2>> for Date
sub_date(d, rhs) == Ok(naive_sub(d.date, rhs.date))

\* subtraction without the negation of the duration
sub_not_negated(d, rhs) == add(d, rhs)

\* Sub<Duration> for Date
sub(d, rhs) == add(d, -rhs)

(***************************************************************************)
(* Debug formatting.  A rendered date is <<year, month, day>>, a rendered  *)
(* time <<hour, minute, second, nanosecond>>, a rendered offset            *)
(* <<sign, hours, minutes>>.                                               *)
(***************************************************************************)
\* fmt::Debug for NaiveDate
fmt_naive_date(n) == <<year(n), month(n), day(n)>>

\* fmt::Debug for NaiveTime
fmt_naive_time(t) ==
    <<t.secs \div 3600, (t.secs \div 60) % 60, t.secs % 60, t.frac>>

\* fmt::Debug for the offset states; tests::OneYear writes "+8760:00"
fmt_offset(s) ==
    IF s.zone = "UTC1y" THEN <<"+", 8760, 0>>
    ELSE LET k == local_minus_utc(s)
             a == IF k < 0 THEN -k ELSE k
         IN  <<IF k < 0 THEN "-" ELSE "+", a \div 3600, (a \div 60) % 60>>

\* formatting of the UTC date in place of the local date
fmt_date_utc(d) ==
    Ok([date |-> fmt_naive_date(naive_utc(d)), offset |-> fmt_offset(d.offset)])

\* fmt::Debug for Date
fmt_date(d) ==
    LET l == naive_local(d)
    IN  IF IsPanic(l) THEN l
        ELSE Ok([date |-> fmt_naive_date(l.val), offset |-> fmt_offset(d.offset)])

\* DateTime::naive_local
datetime_naive_local(dt) == naive_datetime_add(dt.datetime, local_minus_utc(dt.offset))

\* fmt::Debug for DateTime
fmt_datetime(dt) ==
    LET l == datetime_naive_local(dt)
    IN  IF IsPanic(l) THEN l
        ELSE Ok([date |-> fmt_naive_date(l.val.date),
                 time |-> fmt_naive_time(l.val.time),
                 offset |-> fmt_offset(dt.offset)])

(***************************************************************************)
(* Inputs.                                                                 *)
(***************************************************************************)
OffsetStates ==
    {UTC, FixedOffset(DurationHours(9)), FixedOffset(DurationHours(-5)),
     OneYear, SynthEarly, SynthLate}

Timezones ==
    {UTC, FixedOffset(DurationHours(9)), FixedOffset(DurationHours(-5)),
     UTC1y, Synth}

Dates == {from_utc(n, s) : n \in NaiveDates, s \in OffsetStates}

Durations ==
    {DurationDays(1), DurationDays(-1), DurationHours(12), DurationDays(365)}

\* right-hand sides of == and of date - date
Others(d) ==
    {from_utc(d.date, s) : s \in OffsetStates} \cup {from_utc(NaiveMIN, UTC)}

YearArgs == (MinYear - 1)..(MaxYear + 1)
MonthArgs == {0, 2, 3, 11, 12, 13}
Month0Args == {1, 2, 10, 12}
DayArgs == {0, 4, 11, 29, 31, 32}
Day0Args == {3, 10, 28, 31}
OrdinalArgs == {0, 60, 71, 309, 366, 367}
Ordinal0Args == {59, 70, 308, 365, 366}

TimeArgs == {[secs |-> 18367, frac |-> 0], [secs |-> 86399, frac |-> 1500000000]}
HmsArgs == {<<5, 6, 7>>, <<23, 59, 59>>, <<24, 6, 7>>, <<5, 60, 7>>, <<5, 6, 60>>}
HmsFracArgs == {<<5, 6, 7>>, <<24, 0, 0>>}
MilliArgs == {0, 1500, 2000}
MicroArgs == {0, 1500000, 2000000}
NanoArgs == {0, 1500000000, 2000000000}

(***************************************************************************)
(* The state machine.  self is a constructed Date; an operation applied to *)
(* it leaves its name in op, its arguments in arg and its result in out.   *)
(* After an operation, Rebind constructs the Date the next operation is    *)
(* applied to: the operation's result when that is a Date.                 *)
(***************************************************************************)
Init ==
    /\ self \in Dates
    /\ op = "from_utc"
    /\ arg = <<>>
    /\ out = Ok(self)

Ready == op = "from_utc"

Apply(name, a, r) ==
    /\ Ready
    /\ op' = name
    /\ arg' = a
    /\ out' = r
    /\ UNCHANGED self

DateOps ==
    {"succ", "pred", "succ_opt", "pred_opt", "add", "sub", "with_timezone",
     "with_year", "with_month", "with_month0", "with_day", "with_day0",
     "with_ordinal", "with_ordinal0"}

Rebind ==
    /\ ~Ready
    /\ self' = IF op \in DateOps /\ (IsOk(out) \/ IsSome(out))
               THEN from_utc(out.val.date, out.val.offset)
               ELSE self
    /\ op' = "from_utc"
    /\ arg' = <<>>
    /\ out' = Ok(self')

NaiveUtc == Apply("naive_utc", <<>>, Ok(naive_utc(self)))
NaiveLocal == Apply("naive_local", <<>>, naive_local(self))
Succ == Apply("succ", <<>>, succ(self))
SuccOpt == Apply("succ_opt", <<>>, succ_opt(self))
Pred == Apply("pred", <<>>, pred(self))
PredOpt == Apply("pred_opt", <<>>, pred_opt(self))
WithTimezone == \E tz \in Timezones : Apply("with_timezone", <<tz>>, with_timezone(self, tz))
Eq == \E other \in Others(self) : Apply("eq", <<other>>, Ok(eq(self, other)))
Add == \E k \in Durations : Apply("add", <<k>>, add(self, k))
Sub == \E k \in Durations : Apply("sub", <<k>>, sub(self, k))
SubDate == \E rhs \in Others(self) : Apply("sub_date", <<rhs>>, sub_date(self, rhs))

WithYear == \E y \in YearArgs : Apply("with_year", <<y>>, with_year(self, y))
WithMonth == \E m \in MonthArgs : Apply("with_month", <<m>>, with_month(self, m))
WithMonth0 == \E m \in Month0Args : Apply("with_month0", <<m>>, with_month0(self, m))
WithDay == \E d \in DayArgs : Apply("with_day", <<d>>, with_day(self, d))
WithDay0 == \E d \in Day0Args : Apply("with_day0", <<d>>, with_day0(self, d))
WithOrdinal == \E o \in OrdinalArgs : Apply("with_ordinal", <<o>>, with_ordinal(self, o))
WithOrdinal0 == \E o \in Ordinal0Args : Apply("with_ordinal0", <<o>>, with_ordinal0(self, o))

AndTime == \E t \in TimeArgs : Apply("and_time", <<t>>, and_time(self, t))
AndHmsOpt ==
    \E a \in HmsArgs : Apply("and_hms_opt", a, and_hms_opt(self, a[1], a[2], a[3]))
AndHms ==
    \E a \in HmsArgs : Apply("and_hms", a, and_hms(self, a[1], a[2], a[3]))
AndHmsMilliOpt ==
    \E a \in HmsFracArgs, f \in MilliArgs :
        Apply("and_hms_milli_opt", Append(a, f), and_hms_milli_opt(self, a[1], a[2], a[3], f))
AndHmsMilli ==
    \E a \in HmsFracArgs, f \in MilliArgs :
        Apply("and_hms_milli", Append(a, f), and_hms_milli(self, a[1], a[2], a[3], f))
AndHmsMicroOpt ==
    \E a \in HmsFracArgs, f \in MicroArgs :
        Apply("and_hms_micro_opt", Append(a, f), and_hms_micro_opt(self, a[1], a[2], a[3], f))
AndHmsMicro ==
    \E a \in HmsFracArgs, f \in MicroArgs :
        Apply("and_hms_micro", Append(a, f), and_hms_micro(self, a[1], a[2], a[3], f))
AndHmsNanoOpt ==
    \E a \in HmsFracArgs, f \in NanoArgs :
        Apply("and_hms_nano_opt", Append(a, f), and_hms_nano_opt(self, a[1], a[2], a[3], f))
AndHmsNano ==
    \E a \in HmsFracArgs, f \in NanoArgs :
        Apply("and_hms_nano", Append(a, f), and_hms_nano(self, a[1], a[2], a[3], f))
Fmt == Apply("fmt", <<>>, fmt_date(self))

\* arithmetic, comparison, retimezoning
NextArith ==
    \/ NaiveUtc \/ NaiveLocal
    \/ Succ \/ SuccOpt \/ Pred \/ PredOpt
    \/ WithTimezone \/ Eq \/ Add \/ Sub \/ SubDate
    \/ Rebind

\* the field mutators
NextEdit ==
    \/ WithYear \/ WithMonth \/ WithMonth0 \/ WithDay \/ WithDay0
    \/ WithOrdinal \/ WithOrdinal0
    \/ Rebind

\* composition with a time of day, formatting
NextTime ==
    \/ AndTime \/ AndHmsOpt \/ AndHms
    \/ AndHmsMilliOpt \/ AndHmsMilli \/ AndHmsMicroOpt \/ AndHmsMicro
    \/ AndHmsNanoOpt \/ AndHmsNano
    \/ Fmt
    \/ Rebind

Next == NextArith \/ NextEdit \/ NextTime

Spec == Init /\ [][Next]_vars
SpecArith == Init /\ [][NextArith]_vars
SpecEdit == Init /\ [][NextEdit]_vars
SpecTime == Init /\ [][NextTime]_vars

(***************************************************************************)
(* Helpers of the properties: the collaborator call an operation makes.    *)
(***************************************************************************)
OptTimeOps ==
    {"and_time", "and_hms_opt", "and_hms_milli_opt", "and_hms_micro_opt",
     "and_hms_nano_opt"}

NonOptOps ==
    {"and_hms", "and_hms_milli", "and_hms_micro", "and_hms_nano", "succ", "pred"}

\* the time of day the composition `name` validates from its arguments
TimeOf(name, a) ==
    CASE name = "and_time" -> Some(a[1])
      [] name \in {"and_hms_opt", "and_hms"} -> from_hms_opt(a[1], a[2], a[3])
      [] name \in {"and_hms_milli_opt", "and_hms_milli"} ->
             from_hms_milli_opt(a[1], a[2], a[3], a[4])
      [] name \in {"and_hms_micro_opt", "and_hms_micro"} ->
             from_hms_micro_opt(a[1], a[2], a[3], a[4])
      [] name \in {"and_hms_nano_opt", "and_hms_nano"} ->
             from_hms_nano_opt(a[1], a[2], a[3], a[4])

\* the result of the _opt counterpart of the convenience operation `name`
OptOf(name, a, d) ==
    CASE name = "and_hms" -> and_hms_opt(d, a[1], a[2], a[3])
      [] name = "and_hms_milli" -> and_hms_milli_opt(d, a[1], a[2], a[3], a[4])
      [] name = "and_hms_micro" -> and_hms_micro_opt(d, a[1], a[2], a[3], a[4])
      [] name = "and_hms_nano" -> and_hms_nano_opt(d, a[1], a[2], a[3], a[4])
      [] name = "succ" -> succ_opt(d)
      [] name = "pred" -> pred_opt(d)

(***************************************************************************)
(* C1.  A field mutator's result is present if and only if the edit of the *)
(* local date is calendrically valid and the timezone's local-direction    *)
(* date query on the edited date returns Single; otherwise, and for        *)
(* with_month(13) on every date and timezone, the result is absent.        *)
(***************************************************************************)
C1_PresentIffValidAndSingle ==
    op \in Mutators =>
        LET l == naive_local(self)
            e == IF IsOk(l) THEN EditOf(op, arg[1], l.val) ELSE None
            ok == /\ IsSome(e)
                  /\ state_from_local_date(timezone(self), e.val).tag = "Single"
        IN  /\ IsSome(out) <=> ok
            /\ ~ok => IsNone(out)
            /\ (op = "with_month" /\ arg[1] = 13) => IsNone(out)

(***************************************************************************)
(* C2.  and_time and the and_hms*_opt forms return a datetime only when    *)
(* the time fields are valid and the timezone's local-direction datetime   *)
(* query on (naive_local(), time) returns Single, and then the datetime of *)
(* that local value and that state; when the query returns Ambiguous or    *)
(* None, or the time fields are invalid, the result is absent.             *)
(***************************************************************************)
C2_AndTimeOnlyOnSingle ==
    op \in OptTimeOps =>
        LET t == TimeOf(op, arg)
            l == naive_local(self)
            localdt == naive_and_time(l.val, t.val)
            q == state_from_local_datetime(timezone(self), localdt)
        IN  /\ IsNone(t) => IsNone(out)
            /\ (IsSome(t) /\ IsOk(l) /\ q.tag # "Single") => IsNone(out)
            /\ IsSome(out) =>
                   /\ IsSome(t) /\ IsOk(l) /\ q.tag = "Single"
                   /\ out.val.offset = q.val
                   /\ datetime_naive_local(out.val) = Ok(localdt)

\* and_hms_opt on a local date that the timezone repeats returns absent
C2_Witness ==
    /\ op = "and_hms_opt"
    /\ arg = <<5, 6, 7>>
    /\ naive_local(self) = Ok(FoldDate)
    /\ state_from_local_date(timezone(self), FoldDate).tag = "Ambiguous"
    /\ IsNone(out)

(***************************************************************************)
(* C3.  A convenience operation aborts exactly when its _opt counterpart   *)
(* returns absent, and otherwise returns the value the counterpart         *)
(* returns.                                                                *)
(***************************************************************************)
C3_AbortsIffOptAbsent ==
    op \in NonOptOps =>
        LET o == OptOf(op, arg, self)
        IN  /\ IsPanic(out) <=> IsNone(o)
            /\ ~IsPanic(out) => (IsSome(o) /\ out = Ok(o.val))

(***************************************************************************)
(* C4 as stated.  Two dates with the same UTC date and distinct offsets    *)
(* are equal, and their local dates differ.                                *)
(***************************************************************************)
C4_EqualYetLocalsDiffer ==
    (/\ op = "eq"
     /\ arg[1].date = self.date
     /\ local_minus_utc(arg[1].offset) # local_minus_utc(self.offset)) =>
        /\ out = Ok(TRUE)
        /\ naive_local(self) # naive_local(arg[1])

(***************************************************************************)
(* C4 as amended.  == compares the UTC dates alone: two dates with the     *)
(* same UTC date are equal under any offset states.  Their local dates are *)
(* the same whenever the two offsets hold the same number of whole days,   *)
(* and differ when the numbers of whole days differ and both local dates   *)
(* are representable.                                                      *)
(***************************************************************************)
C4_EqualityIgnoresOffset ==
    op = "eq" =>
        LET other == arg[1]
            n1 == num_days(local_minus_utc(self.offset))
            n2 == num_days(local_minus_utc(other.offset))
            l1 == naive_local(self)
            l2 == naive_local(other)
        IN  /\ out = Ok(self.date = other.date)
            /\ (self.date = other.date /\ n1 = n2) => l1 = l2
            /\ (self.date = other.date /\ n1 # n2 /\ IsOk(l1) /\ IsOk(l2)) => l1 # l2

\* two distinct fixed offsets of less than a day: equal dates, same local date
C4_Witness ==
    /\ op = "eq"
    /\ self.offset = FixedOffset(DurationHours(9))
    /\ arg[1] = from_utc(self.date, FixedOffset(DurationHours(-5)))
    /\ out = Ok(TRUE)
    /\ naive_local(self) = naive_local(arg[1])

(***************************************************************************)
(* C5 as stated.  For every date d and duration k, (d + k) - k == d and    *)
(* (d + k) - d == k.                                                       *)
(***************************************************************************)
C5_AddSubRoundTrip ==
    op = "add" =>
        /\ IsOk(out)
        /\ IsOk(sub(out.val, arg[1]))
        /\ eq(sub(out.val, arg[1]).val, self)
        /\ sub_date(out.val, self) = Ok(arg[1])

(***************************************************************************)
(* C5 as amended.  d + k aborts when the UTC date moved by the whole days  *)
(* of k is not representable.  Otherwise (d + k) - k == d, and (d + k) - d *)
(* is k cut down to its whole days: it is k exactly when k is a whole      *)
(* number of days.                                                         *)
(***************************************************************************)
C5_AddSubWholeDays ==
    op = "add" =>
        LET k == arg[1]
            whole == DurationDays(num_days(k))
        IN  /\ IsOk(out) <=> (self.date + num_days(k)) \in NaiveDates
            /\ ~IsOk(out) => IsPanic(out)
            /\ IsOk(out) =>
                   /\ out.val.date = self.date + num_days(k)
                   /\ IsOk(sub(out.val, k))
                   /\ eq(sub(out.val, k).val, self)
                   /\ sub_date(out.val, self) = Ok(whole)
                   /\ (sub_date(out.val, self) = Ok(k)) <=> (k = whole)

\* adding twelve hours leaves the date where it is
C5_Witness ==
    /\ op = "add"
    /\ arg[1] = DurationHours(12)
    /\ IsOk(out)
    /\ sub_date(out.val, self) = Ok(0)
    /\ eq(sub(out.val, arg[1]).val, self)

(***************************************************************************)
(* C6.  naive_local() is total: for every constructible date it returns    *)
(* date + local_minus_utc(offset) without aborting.                        *)
(***************************************************************************)
C6_NaiveLocalTotal ==
    op = "naive_local" =>
        /\ IsOk(out)
        /\ out.val = self.date + num_days(local_minus_utc(self.offset))

(***************************************************************************)
(* C7.  with_timezone never fails and keeps the UTC date; the offset state *)
(* is the new timezone's UTC-direction state at that date; going to        *)
(* another timezone and back gives a date equal to the first, and for the  *)
(* fixed-offset timezones the very same value.                             *)
(***************************************************************************)
C7_WithTimezoneKeepsUtcDate ==
    op = "with_timezone" =>
        /\ IsOk(out)
        /\ naive_utc(out.val) = naive_utc(self)
        /\ out.val.offset = state_from_utc_date(arg[1], naive_utc(self))
        /\ LET back == with_timezone(out.val, timezone(self))
           IN  /\ IsOk(back)
               /\ eq(back.val, self)
               /\ self.offset.zone \in {"UTC", "FixedOffset", "UTC1y"} => back.val = self

\* a date of UTC1y, a year ahead of UTC, re-expressed under a fixed offset
C7_Witness ==
    /\ op = "with_timezone"
    /\ self.offset = OneYear
    /\ arg[1].zone = "FixedOffset"
    /\ IsOk(out)
    /\ out.val.offset = arg[1]
    /\ out.val.date = self.date

(***************************************************************************)
(* C8.  For a date that is not the last representable one succ().pred()    *)
(* gives it back, for one that is not the first pred().succ() does;        *)
(* succ_opt is absent only on the last representable UTC date and pred_opt *)
(* only on the first.                                                      *)
(***************************************************************************)
C8_SuccPredInverse ==
    /\ op = "succ" =>
           /\ IsPanic(out) <=> self.date = NaiveMAX
           /\ ~IsPanic(out) =>
                  /\ IsOk(out)
                  /\ IsOk(pred(out.val))
                  /\ eq(pred(out.val).val, self)
    /\ op = "pred" =>
           /\ IsPanic(out) <=> self.date = NaiveMIN
           /\ ~IsPanic(out) =>
                  /\ IsOk(out)
                  /\ IsOk(succ(out.val))
                  /\ eq(succ(out.val).val, self)
    /\ op = "succ_opt" =>
           /\ IsNone(out) <=> self.date = NaiveMAX
           /\ ~IsNone(out) => (IsSome(out) /\ out.val.date = self.date + 1)
    /\ op = "pred_opt" =>
           /\ IsNone(out) <=> self.date = NaiveMIN
           /\ ~IsNone(out) => (IsSome(out) /\ out.val.date = self.date - 1)

\* succ over the leap day, then back
C8_Witness ==
    /\ op = "succ"
    /\ fmt_naive_date(self.date) = <<2012, 2, 28>>
    /\ IsOk(out)
    /\ fmt_naive_date(out.val.date) = <<2012, 2, 29>>
    /\ pred(out.val) = Ok(self)

(***************************************************************************)
(* C9.  Under UTC1y, a year ahead of UTC with every local value resolving  *)
(* to Single: the date made for local 2012-02-29 is rendered as 2012-02-29 *)
(* with offset +8760:00 and its and_hms(5, 6, 7) as 2012-02-29T05:06:07    *)
(* with the same offset, likewise for 2012-03-04; and every date is        *)
(* rendered as the civil date 365 days after its UTC date, its and_hms(h,  *)
(* m, s) as that same civil date with time h:m:s and the same offset.      *)
(***************************************************************************)
C9_WeirdOffsetRendering ==
    self.offset = OneYear =>
        LET plus8760 == <<"+", 8760, 0>>
            feb29 == ymd(UTC1y, 2012, 2, 29)
            mar04 == ymd(UTC1y, 2012, 3, 4)
        IN  /\ (op = "fmt" /\ IsOk(out)) =>
                   /\ out.val.offset = plus8760
                   /\ from_ymd_opt(out.val.date[1], out.val.date[2], out.val.date[3])
                          = Some(self.date + 365)
            /\ (op = "fmt" /\ feb29 = Ok(self)) =>
                   out = Ok([date |-> <<2012, 2, 29>>, offset |-> plus8760])
            /\ (op = "fmt" /\ mar04 = Ok(self)) =>
                   out = Ok([date |-> <<2012, 3, 4>>, offset |-> plus8760])
            /\ (op = "and_hms" /\ IsSome(from_hms_opt(arg[1], arg[2], arg[3]))) =>
                   LET shown == fmt_date(self)
                   IN  /\ IsPanic(out) <=> IsPanic(shown)
                       /\ ~IsPanic(out) =>
                              /\ IsOk(out)
                              /\ fmt_datetime(out.val)
                                     = Ok([date |-> shown.val.date,
                                           time |-> <<arg[1], arg[2], arg[3], 0>>,
                                           offset |-> shown.val.offset])
            /\ (op = "and_hms" /\ arg = <<5, 6, 7>> /\ feb29 = Ok(self)) =>
                   /\ IsOk(out)
                   /\ fmt_datetime(out.val)
                          = Ok([date |-> <<2012, 2, 29>>, time |-> <<5, 6, 7, 0>>,
                                offset |-> plus8760])
            /\ (op = "and_hms" /\ arg = <<5, 6, 7>> /\ mar04 = Ok(self)) =>
                   /\ IsOk(out)
                   /\ fmt_datetime(out.val)
                          = Ok([date |-> <<2012, 3, 4>>, time |-> <<5, 6, 7, 0>>,
                                offset |-> plus8760])

\* and_hms(5, 6, 7) on UTC1y.ymd(2012, 2, 29)
C9_Witness ==
    /\ op = "and_hms"
    /\ arg = <<5, 6, 7>>
    /\ ymd(UTC1y, 2012, 2, 29) = Ok(self)
    /\ IsOk(out)
    /\ fmt_datetime(out.val).val.date = <<2012, 2, 29>>

(***************************************************************************)
(* C10.  date + duration, date - duration, succ, succ_opt, pred and        *)
(* pred_opt return a date with the operand's offset state, whatever state  *)
(* the timezone has at the new UTC date.                                   *)
(***************************************************************************)
C10_OffsetStateKept ==
    (/\ op \in {"add", "sub", "succ", "succ_opt", "pred", "pred_opt"}
     /\ (IsOk(out) \/ IsSome(out))) =>
        offset(out.val) = offset(self)

\* a day added across the synthetic timezone's transition: the state is kept
C10_Witness ==
    /\ op = "add"
    /\ arg = <<DurationDays(1)>>
    /\ self = from_utc(SynthForward - 1, SynthEarly)
    /\ IsOk(out)
    /\ out.val.offset = SynthEarly
    /\ state_from_utc_date(Synth, out.val.date) = SynthLate

=============================================================================
